---- MODULE Spec2Model ----
(***************************************************************************)
(* State-machine model of fulltext_article_downloader/downloader.py:       *)
(* get_publisher_from_doi, download_article and bulk_download_articles.    *)
(*                                                                         *)
(* Text values (DOIs, file names, paths) are sequences of tokens.  A token *)
(* is either a maximal run of characters of the class [A-Za-z0-9._-]      *)
(* (written as one TLA+ string, e.g. "10.1101") or a single character      *)
(* outside that class (e.g. "/").  Splitting on "/" and the substitution   *)
(* of re.sub(r'[^A-Za-z0-9._-]', '_', doi) are computed token by token.    *)
(***************************************************************************)
EXTENDS Integers, Sequences, FiniteSets, TLC

\* ------------------------------------------------------------------ bounds
\* longest explicit strategy list a caller passes as tools=
MaxTools == 2
\* longest list of identifiers passed to bulk_download_articles
MaxDois == 2

\* ------------------------------------------------------- Python values
PyNone == [t |-> "None"]
PyStr(s) == [t |-> "str", v |-> s]
PyText(toks) == [t |-> "text", v |-> toks]
PyList(seq) == [t |-> "list", v |-> seq]
PyDict(f) == [t |-> "dict", f |-> f]
EmptyDict == [t |-> "dict", f |-> <<>>]

\* truth value of a Python object, as `if x:` computes it
Truthy(x) ==
  CASE x.t = "None" -> FALSE
    [] x.t = "str"  -> x.v # ""
    [] x.t = "text" -> Len(x.v) > 0
    [] x.t = "list" -> Len(x.v) > 0
    [] x.t = "dict" -> DOMAIN x.f # {}
    [] OTHER        -> TRUE

\* only str and None (among the values modelled) are hashable dict keys
Hashable(x) == x.t \in {"None", "str"}

\* an evaluation either returns a value or raises an exception
Return(x) == [kind |-> "return", val |-> x]
\* an exception message: its text and, for the final error of
\* download_article, the identifier and the text of the last failure
Msg(text) == [text |-> text, doi |-> <<>>, has_last |-> FALSE, last |-> ""]
Raise(type, text) == [kind |-> "raise", exc |-> [type |-> type, msg |-> Msg(text)]]

\* --------------------------------------------------------------- tables
PUBLISHER_TOOL_MAP ==
     ("Elsevier BV" :> <<"unpaywall", "elsevier">>)
  @@ ("Springer Science and Business Media LLC" :> <<"springerpdf", "unpaywall", "springeropen">>)
  @@ ("Wiley" :> <<"wiley", "unpaywall">>)
  @@ ("American Chemical Society (ACS)" :> <<"unpaywall">>)
  @@ ("Royal Society of Chemistry (RSC)" :> <<"unpaywall">>)
  @@ ("American Institute of Physics (AIP)" :> <<"unpaywall">>)
  @@ ("American Physical Society (APS)" :> <<"aps", "unpaywall">>)
  @@ ("Oxford University Press (OUP)" :> <<"unpaywall">>)
  @@ ("Cambridge University Press (CUP)" :> <<"cambridge", "unpaywall">>)
  @@ ("Taylor & Francis" :> <<"unpaywall">>)
  @@ ("Public Library of Science (PLoS)" :> <<"plos", "unpaywall">>)
  @@ ("bioRxiv" :> <<"paperscraper", "unpaywall">>)
  @@ ("medRxiv" :> <<"paperscraper", "unpaywall">>)
  @@ ("chemRxiv" :> <<"paperscraper", "unpaywall">>)
  @@ ("arXiv" :> <<"paperscraper", "arxiv", "unpaywall">>)
  @@ ("eLife Sciences Publications, Ltd" :> <<"elife", "unpaywall">>)
  @@ ("Institute of Electrical and Electronics Engineers (IEEE)" :> <<"unpaywall">>)

PREPRINT_SERVER_PREFIXES ==
     ("10.1101" :> "bioRxiv")
  @@ ("10.21203" :> "Research Square")
  @@ ("10.31219" :> "OSF Preprints")
  @@ ("10.20944" :> "Preprints.org")
  @@ ("10.26434" :> "chemRxiv")
  @@ ("10.22541" :> "medRxiv")
  @@ ("10.31730" :> "EarthArXiv")
  @@ ("10.1149" :> "ECSarXiv")
  @@ ("10.3886" :> "SSRN")
  @@ ("10.33774" :> "Cambridge Open Engage")
  @@ ("10.2139" :> "SSRN")
  @@ ("10.53731" :> "arXiv")
  @@ ("10.48550" :> "arXiv")
  @@ ("10.57967" :> "engRxiv")
  @@ ("10.3389" :> "Frontiers Media SA")
  @@ ("10.4175" :> "Frontiers Media SA")

\* the keys of TOOL_FUNCTIONS
TOOL_FUNCTIONS ==
  {"elsevier", "springerpdf", "wiley", "plos", "unpaywall", "springeropen",
   "crossref_tdm", "arxiv", "elife", "paperscraper", "aps", "cambridge"}

\* the list used when the publisher is unknown or has no table entry
DefaultMethodList == <<"unpaywall", "crossref_tdm">>


\* ---------------------------------------------------------------- inputs
\* identifiers: two fast-path preprints of the examples, a prefix of the
\* prefix table without a strategy-table entry, two unknown prefixes (one
\* carrying a table key after the first "/"), and one without any "/"
DOIs ==
  { <<"10.48550", "/", "arXiv.2504.00812">>,
    <<"10.1101", "/", "2025.01.06.631505">>,
    <<"10.21203", "/", "rs.3.rs-1">>,
    <<"10.1016", "/", "j.msea.2025.148402">>,
    <<"10.1002", "/", "10.1101", "/", "x">>,
    <<"10.48550">> }

\* single characters outside [A-Za-z0-9._-] that occur as tokens
DisallowedTokens == {"/", ":", " "}

OutputDirs == { <<"papers">> }

\* output_filename arguments: absent, without extension, with extension
OutputFilenames == { PyNone, PyText(<<>>), PyText(<<"paper">>), PyText(<<"paper", ".txt">>) }

\* tokens that are a file extension (a dot followed by non-dot characters)
ExtTokens == {".pdf", ".xml", ".txt"}

\* log_file arguments
LogFiles == { PyNone, PyText(<<"download.log">>) }

\* strategy names a caller passes explicitly; "nosuchtool" is not registered
ToolNames == {"unpaywall", "elsevier", "nosuchtool"}

RECURSIVE SeqsUpTo(_, _)
SeqsUpTo(S, n) ==
  IF n = 0 THEN { <<>> }
  ELSE LET shorter == SeqsUpTo(S, n - 1)
       IN  shorter \cup { Append(q, x) : q \in shorter, x \in S }

\* strategies named alone in a tools argument
SingleTools == {"wiley", "springeropen"}

\* tools arguments: None, or an explicit list (possibly empty)
ToolsArgs ==
  { PyNone } \cup { PyList(q) : q \in SeqsUpTo(ToolNames, MaxTools) }
             \cup { PyList(<<t>>) : t \in SingleTools }

\* ------------------------------------------------- registry HTTP responses
Unparsable == [t |-> "unparsable"]

\* values a registry may put in the publisher field
PublisherValues ==
  { PyStr("Elsevier BV"), PyStr("Wiley"), PyStr("Unlisted Press"), PyStr(""),
    PyNone, PyDict("name" :> PyStr("Wiley")) }

\* bodies of a CrossRef answer: not JSON, a JSON array, objects without or
\* with a malformed "message", and objects carrying message.publisher
CrossrefBodies ==
  { Unparsable, PyList(<<>>), EmptyDict,
    PyDict("message" :> PyStr("error")),
    PyDict("message" :> EmptyDict) }
  \cup { PyDict("message" :> PyDict("publisher" :> v)) : v \in PublisherValues }

\* bodies of a DataCite answer (publisher at data.attributes.publisher)
DataciteBodies ==
  { Unparsable, EmptyDict,
    PyDict("data" :> PyNone),
    PyDict("data" :> PyDict("attributes" :> EmptyDict)) }
  \cup { PyDict("data" :> PyDict("attributes" :> PyDict("publisher" :> v))) :
           v \in PublisherValues }

TransportError == [err |-> TRUE, status |-> 0, body |-> Unparsable]
HttpResponse(status, body) == [err |-> FALSE, status |-> status, body |-> body]

CrossrefResponses ==
  { TransportError, HttpResponse(404, Unparsable), HttpResponse(500, Unparsable) }
  \cup { HttpResponse(200, b) : b \in CrossrefBodies }

DataciteResponses ==
  { TransportError, HttpResponse(404, Unparsable), HttpResponse(500, Unparsable) }
  \cup { HttpResponse(200, b) : b \in DataciteBodies }

\* ------------------------------------------------ get_publisher_from_doi
\* doi.split('/')[-1]: the tokens after the last "/"
RECURSIVE SplitLast(_)
SplitLast(doi) ==
  IF doi = <<>> \/ doi[Len(doi)] = "/" THEN <<>>
  ELSE SplitLast(SubSeq(doi, 1, Len(doi) - 1)) \o <<doi[Len(doi)]>>

\* doi.split('/')[0]: the tokens before the first "/"
RECURSIVE SplitFirst(_)
SplitFirst(doi) ==
  IF doi = <<>> \/ Head(doi) = "/" THEN <<>>
  ELSE <<Head(doi)>> \o SplitFirst(Tail(doi))

\* prefix in PREPRINT_SERVER_PREFIXES: every key is one token (digits and
\* dots only), so a prefix of zero or several tokens is no key
PrefixInTable(prefix) ==
  Len(prefix) = 1 /\ prefix[1] \in DOMAIN PREPRINT_SERVER_PREFIXES

\* requests.get(url): raises on a transport error, else gives the response
RequestsGet(resp) ==
  IF resp.err THEN Raise("ConnectionError", "request failed") ELSE Return(resp)

\* r.raise_for_status(): HTTPError for 4xx and 5xx
RaiseForStatus(resp) ==
  IF resp.status >= 400 /\ resp.status < 600
  THEN Raise("HTTPError", "bad status") ELSE Return(PyNone)

\* r.json()
Json(resp) ==
  IF resp.body.t = "unparsable" THEN Raise("JSONDecodeError", "no json")
  ELSE Return(resp.body)

\* o.get(key, dflt) on the result o of an earlier evaluation: propagates an
\* earlier exception, raises AttributeError when o has no method get
DictGet(o, key, dflt) ==
  IF o.kind = "raise" THEN o
  ELSE IF o.val.t # "dict" THEN Raise("AttributeError", "no attribute get")
  ELSE IF key \in DOMAIN o.val.f THEN Return(o.val.f[key])
  ELSE Return(dflt)

\* a classifier that falls back to DataCite on every HTTP error status
AnyHttpError(r) == r.status >= 400

\* line 63: if r.status_code == 404
NotFound(r) == r.status = 404

\* lines 67-73: the DataCite answer r2
DatacitePublisher(r2) ==
  IF r2.status = 200
  THEN DictGet(DictGet(DictGet(Json(r2), "data", EmptyDict), "attributes", EmptyDict),
               "publisher", PyNone)
  ELSE Return(PyNone)

\* lines 74-77: the CrossRef answer r (status other than 404)
CrossrefPublisher(r) ==
  IF RaiseForStatus(r).kind = "raise" THEN RaiseForStatus(r)
  ELSE DictGet(DictGet(Json(r), "message", EmptyDict), "publisher", PyNone)

\* lines 78-80: except Exception: log the error, return None
ExceptException(o) ==
  IF o.kind = "raise" THEN Return(PyNone) ELSE o


\* --------------------------------------------------------------- strategies
\* failure messages a strategy of tools.py raises (Exception(message))
ToolFailures(tool) ==
  CASE tool = "elsevier"     -> {"ELSEVIER_API_KEY is not set", "Access denied by Elsevier API"}
    [] tool = "springerpdf"  -> {"Failed to download link.springer.com"}
    [] tool = "wiley"        -> {"WILEY_API_KEY is not set", "Wiley API download failed"}
    [] tool = "plos"         -> {"PLOS download failed"}
    [] tool = "unpaywall"    -> {"UNPAYWALL_EMAIL is not set", "No open-access PDF found"}
    [] tool = "springeropen" -> {"SPRINGER_API_KEY is not set", "No Open Access content found"}
    [] tool = "crossref_tdm" -> {"CrossRef API request failed", "No PDF link found via CrossRef"}
    [] tool = "arxiv"        -> {"Failed to download arxiv.org"}
    [] tool = "elife"        -> {"No PDF link found on eLife page"}
    [] tool = "paperscraper" -> {"paperscraper library is not installed", "Paperscraper failed"}
    [] tool = "aps"          -> {"Failed to load APS cookies"}
    [] tool = "cambridge"    -> {"Could not find PDF link on the Cambridge article page"}
    [] OTHER                 -> {}

\* what a call TOOL_FUNCTIONS[tool](doi, output_path) may do: every strategy
\* of tools.py returns the output_path it was given, or raises Exception
ToolOutcomes(tool, path) ==
  { Return(path) } \cup { Raise("Exception", m) : m \in ToolFailures(tool) }

\* the environment variable a strategy reads first (tools.py lines 36, 84,
\* 118 and 145); "" for a strategy that reads none
CredentialOf(tool) ==
  CASE tool = "elsevier"     -> "ELSEVIER_API_KEY"
    [] tool = "wiley"        -> "WILEY_API_KEY"
    [] tool = "unpaywall"    -> "UNPAYWALL_EMAIL"
    [] tool = "springeropen" -> "SPRINGER_API_KEY"
    [] OTHER                 -> ""

CredentialVars ==
  {"ELSEVIER_API_KEY", "WILEY_API_KEY", "UNPAYWALL_EMAIL", "SPRINGER_API_KEY"}

\* os.environ of the process: nothing configured, everything configured,
\* and one variable set to the empty string
NoEnviron == <<>>
FullEnviron == [n \in CredentialVars |-> "secret"]
BlankEnviron == [n \in CredentialVars |-> IF n = "ELSEVIER_API_KEY" THEN "" ELSE "secret"]
Environs == {NoEnviron, FullEnviron, BlankEnviron}

\* os.getenv(name)
Getenv(env, name) == IF name \in DOMAIN env THEN PyStr(env[name]) ELSE PyNone

\* the Exception of tools.py lines 37-39, 85-87, 119-121 and 146-148
MissingCredential(tool) == Raise("Exception", CredentialOf(tool) \o " is not set")

\* failures a strategy raises before its first request: the missing
\* credential, a missing library (line 257), unreadable cookies (line 279)
FailuresBeforeRequest ==
  { CredentialOf(t) \o " is not set" : t \in {"elsevier", "wiley", "unpaywall", "springeropen"} }
    \cup {"paperscraper library is not installed", "Failed to load APS cookies"}

\* strategies that first look the article up and then download the file
\* from the URL they found (tools.py lines 137 and 201)
TwoStepTools == {"unpaywall", "crossref_tdm", "elife", "cambridge"}

\* the requests a strategy has issued when it ends with outcome o
RequestsOf(tool, o) ==
  IF o.kind = "raise"
  THEN IF o.exc.msg.text \in FailuresBeforeRequest THEN <<>> ELSE <<[tool |-> tool, step |-> "api"]>>
  ELSE IF tool \in TwoStepTools
       THEN <<[tool |-> tool, step |-> "api"], [tool |-> tool, step |-> "file"]>>
       ELSE <<[tool |-> tool, step |-> "file"]>>

\* one execution of a strategy: its outcome, the requests it issued and
\* whether it wrote the destination file
Run(tool, o) == [result |-> o, requests |-> RequestsOf(tool, o), wrote |-> o.kind = "return"]

\* strategies that check the credential only after the request was sent
StrategyRunsRequestFirst(tool, path, env) ==
  IF CredentialOf(tool) # "" /\ ~Truthy(Getenv(env, CredentialOf(tool)))
  THEN { [result |-> MissingCredential(tool),
          requests |-> <<[tool |-> tool, step |-> "api"]>>, wrote |-> FALSE] }
  ELSE { Run(tool, o) : o \in ToolOutcomes(tool, path) \ {MissingCredential(tool)} }

\* the executions of TOOL_FUNCTIONS[tool](doi, output_path) under os.environ
\* env: a strategy that needs a credential raises at once when os.getenv
\* gives None or "" (`if not api_key`), and never raises that error otherwise
StrategyRuns(tool, path, env) ==
  IF CredentialOf(tool) # "" /\ ~Truthy(Getenv(env, CredentialOf(tool)))
  THEN { Run(tool, MissingCredential(tool)) }
  ELSE { Run(tool, o) : o \in ToolOutcomes(tool, path) \ {MissingCredential(tool)} }

\* --------------------------------------- the metadata-driven strategies
\* strategies that ask an API for the URL of the PDF and then download it
MetadataTools == {"unpaywall", "crossref_tdm"}

\* a URL found in the metadata
PdfUrl == PyStr("https://host/paper.pdf")

\* bodies of an Unpaywall answer: not JSON, a JSON array, and objects with
\* no, a null, an empty, a malformed or a usable best_oa_location
UnpaywallBodies ==
  { Unparsable, PyList(<<>>), EmptyDict,
    PyDict("best_oa_location" :> PyNone),
    PyDict("best_oa_location" :> EmptyDict),
    PyDict("best_oa_location" :> PyStr("closed")),
    PyDict("best_oa_location" :> PyDict("url_for_pdf" :> PyNone)),
    PyDict("best_oa_location" :> PyDict("url_for_pdf" :> PdfUrl)) }

\* an element of message.link
Link(ct, url) == PyDict(("content-type" :> PyStr(ct)) @@ ("URL" :> url))

\* bodies of a CrossRef works answer: not JSON, objects without message or
\* without link, and link lists without a PDF link, with a PDF link after
\* another link, and with a PDF link that has no URL before one that has
CrossrefTdmBodies ==
  { Unparsable, EmptyDict,
    PyDict("message" :> EmptyDict),
    PyDict("message" :> PyDict("link" :> PyList(<<>>))),
    PyDict("message" :> PyDict("link" :> PyList(<<Link("text/html", PyStr("https://host/landing"))>>))),
    PyDict("message" :> PyDict("link" :> PyList(
      <<Link("text/xml", PyStr("https://host/paper.xml")), Link("application/pdf", PdfUrl)>>))),
    PyDict("message" :> PyDict("link" :> PyList(
      <<PyDict("content-type" :> PyStr("application/pdf; version=1.7")),
        Link("application/pdf", PdfUrl)>>))) }

\* answers to the metadata request of a strategy
MetadataResponses(tool) ==
  { TransportError, HttpResponse(404, Unparsable), HttpResponse(500, Unparsable) }
  \cup { HttpResponse(200, b) :
           b \in IF tool = "unpaywall" THEN UnpaywallBodies ELSE CrossrefTdmBodies }

\* answers to the request for the file
DownloadResponses ==
  { TransportError, HttpResponse(404, Unparsable), HttpResponse(200, Unparsable) }

\* tools.py line 192: content-type.startswith("application/pdf")
StartsWithPdf(ct) == ct \in {"application/pdf", "application/pdf; version=1.7"}

\* tools.py lines 191-195: the URL of the first link typed as PDF
RECURSIVE FirstPdfLink(_)
FirstPdfLink(links) ==
  IF links = <<>> THEN Return(PyNone)
  ELSE LET ct == DictGet(Return(Head(links)), "content-type", PyStr(""))
       IN  IF ct.kind = "raise" THEN ct
           ELSE IF ct.val.t # "str" THEN Raise("AttributeError", "no attribute startswith")
           ELSE IF StartsWithPdf(ct.val.v) THEN DictGet(Return(Head(links)), "URL", PyNone)
           ELSE FirstPdfLink(Tail(links))

\* tools.py lines 188-195
CrossrefTdmPdfLink(r) ==
  LET links == DictGet(DictGet(Json(r), "message", EmptyDict), "link", PyList(<<>>))
  IN  IF links.kind = "raise" THEN links
      ELSE IF links.val.t # "list" THEN Raise("TypeError", "links is not a list")
      ELSE FirstPdfLink(links.val.v)

\* tools.py lines 130-133
UnpaywallPdfUrl(r) ==
  LET loc == DictGet(Json(r), "best_oa_location", PyNone)
  IN  IF loc.kind = "raise" THEN loc
      ELSE IF ~Truthy(loc.val) THEN Return(PyNone)
      ELSE DictGet(loc, "url_for_pdf", PyNone)

\* a strategy that goes on to the download whatever the metadata gave
AcceptAnyUrl(tool, o) == o

\* tools.py lines 134-135 and 198-199: if not pdf_url: raise Exception
RequirePdfUrl(tool, o) ==
  IF o.kind = "raise" THEN o
  ELSE IF ~Truthy(o.val)
       THEN Raise("Exception", IF tool = "unpaywall" THEN "No open-access PDF found"
                               ELSE "No PDF link found via CrossRef")
       ELSE o

\* tools.py lines 118-135 and 184-199, with answer r to the metadata
\* request: whether the request was sent, and the URL found or the failure
MetadataLookup(tool, env, r) ==
  IF CredentialOf(tool) # "" /\ ~Truthy(Getenv(env, CredentialOf(tool)))
  THEN [sent |-> FALSE, result |-> MissingCredential(tool)]
  ELSE [sent |-> TRUE,
        result |->
          IF RequestsGet(r).kind = "raise"
          THEN Raise("Exception", IF tool = "unpaywall" THEN "Error connecting to Unpaywall API"
                                  ELSE "Error connecting to CrossRef API")
          ELSE IF r.status # 200
          THEN Raise("Exception", IF tool = "unpaywall" THEN "Unpaywall API request failed"
                                  ELSE "CrossRef API request failed")
          ELSE RequirePdfUrl(tool, IF tool = "unpaywall" THEN UnpaywallPdfUrl(r)
                                   ELSE CrossrefTdmPdfLink(r))]

\* tools.py lines 7-28: _download_file with answer d; writable: open and
\* write of output_path succeed
DownloadFile(d, path, writable) ==
  IF RequestsGet(d).kind = "raise" THEN Raise("Exception", "Request error for")
  ELSE IF d.status # 200 THEN Raise("Exception", "Failed to download")
  ELSE IF ~writable THEN Raise("Exception", "Error writing to file")
  ELSE Return(path)

\* ----------------------------------------------------------- output path
\* re.sub(r'[^A-Za-z0-9._-]', '_', doi)
Sanitize(doi) ==
  [i \in 1..Len(doi) |-> IF doi[i] \in DisallowedTokens THEN "_" ELSE doi[i]]

\* a download_article that names every file .pdf
ExtensionPdf(tool) == ".pdf"

\* lines 158 and 163
ExtensionFor(tool) ==
  IF tool \in {"elsevier", "springeropen"} THEN ".xml" ELSE ".pdf"

\* os.path.splitext on a file name whose extension, if any, is its last
\* token: <<root, ext>>, ext = <<>> when the name has no extension
Splitext(name) ==
  IF Len(name) > 1 /\ name[Len(name)] \in ExtTokens
  THEN << SubSeq(name, 1, Len(name) - 1), <<name[Len(name)]>> >>
  ELSE << name, <<>> >>

\* lines 153-164
OutName(doi, output_filename, tool) ==
  IF Truthy(output_filename)
  THEN IF Splitext(output_filename.v)[2] = <<>>
       THEN Splitext(output_filename.v)[1] \o <<ExtensionFor(tool)>>
       ELSE output_filename.v
  ELSE Sanitize(doi) \o <<ExtensionFor(tool)>>

\* os.path.join(output_dir, out_name): an absolute second part wins
PathJoin(dir, name) ==
  IF Len(name) > 0 /\ name[1] = "/" THEN name ELSE dir \o <<"/">> \o name

\* line 165
OutputPath(c, tool) ==
  PyText(PathJoin(c.output_dir, OutName(c.doi, c.output_filename, tool)))

\* ---------------------------------------------------------------- logging
Cwd == <<"/", "cwd">>

\* os.path.abspath: a relative path is taken from the working directory
Abspath(p) == IF Len(p) > 0 /\ p[1] = "/" THEN p ELSE Cwd \o <<"/">> \o p

\* a set-up that attaches a FileHandler on every call
AddHandlerAlways(hs, file_path) == TRUE

\* lines 120-127: no FileHandler of logger.handlers is for file_path
AddHandlerNeeded(hs, file_path) ==
  \A i \in 1..Len(hs) : Abspath(hs[i]) # file_path

\* the files of the file system that hold log lines: path :> number of lines
NoFiles == <<>>

\* line 129: FileHandler(file_path, mode='a') opens the file at once in
\* append mode: created empty if absent, left as it is otherwise
OpenAppend(fs, p) == IF p \in DOMAIN fs THEN fs ELSE (p :> 0) @@ fs

\* logging level numbers
LevelNo(l) ==
  CASE l = "NOTSET" -> 0 [] l = "INFO" -> 20 [] l = "WARNING" -> 30 [] l = "ERROR" -> 40

\* line 6: logging.basicConfig(level=logging.WARNING) sets the root level,
\* which a logger whose own level is NOTSET inherits
EffectiveLevel(lv) == IF lv = "NOTSET" THEN "WARNING" ELSE lv

\* line 130: file_handler.setLevel(logging.INFO)
HandlerLevel == "INFO"

\* number of handlers of the logger that write to path p
HandlersFor(hs, p) == Cardinality({i \in 1..Len(hs) : hs[i] = p})

\* logger.info / warning / error of lines 167-178: a record the logger is
\* enabled for goes to every handler whose level admits it, and each such
\* handler appends one line to its file
Emit(fs, hs, lv, rec) ==
  IF /\ LevelNo(rec.level) >= LevelNo(EffectiveLevel(lv))
     /\ LevelNo(rec.level) >= LevelNo(HandlerLevel)
  THEN [p \in DOMAIN fs |-> fs[p] + HandlersFor(hs, p)]
  ELSE fs

\* ------------------------------------------------------ strategy selection
\* line 139 read as `if not tools:`
ToolsIsFalsy(tools) == ~Truthy(tools)

\* line 139: if tools is None
ToolsIsNone(tools) == tools.t = "None"

\* an explicit list followed by the default strategies
ExplicitThenDefault(tools) == tools.v \o DefaultMethodList

\* line 146: method_list = tools
ExplicitMethodList(tools) == tools.v

\* a lookup that ignores the strategy table
MethodListAlwaysDefault(pub) == Return(DefaultMethodList)

\* lines 141-144: dict.get hashes its key and raises TypeError if it cannot
MethodListFor(pub) ==
  IF Truthy(pub)
  THEN IF ~Hashable(pub) THEN Raise("TypeError", "unhashable type")
       ELSE IF pub.t = "str" /\ pub.v \in DOMAIN PUBLISHER_TOOL_MAP
            THEN Return(PUBLISHER_TOOL_MAP[pub.v])
            ELSE Return(DefaultMethodList)
  ELSE Return(DefaultMethodList)

\* lines 176-181: the message of the final Exception
AllFailedError(doi, last) ==
  [kind |-> "raise",
   exc |-> [type |-> "Exception",
            msg |-> [text |-> "All download methods failed for DOI", doi |-> doi,
                     has_last |-> Truthy(last),
                     last |-> IF Truthy(last) THEN last.msg.text ELSE ""]]]

\* a loop that keeps the first failure
KeepFirstException(old, e) ==
  IF old.t = "None" THEN [t |-> "exc", type |-> e.type, msg |-> e.msg] ELSE old

\* line 172: last_exception = e
KeepLastException(old, e) == [t |-> "exc", type |-> e.type, msg |-> e.msg]

\* ----------------------------------------------------------------- state
VARIABLES
  pc,             \* control position
  call,           \* arguments of the running download_article call
  handlers,       \* baseFilename of the FileHandlers of the module logger
  publisher,      \* outcome of get_publisher_from_doi in this call
  classified,     \* number of get_publisher_from_doi calls in this call
  net,            \* registry requests issued by the classifier in this call
  method_list,    \* the list download_article iterates over
  idx,            \* position of the loop in method_list
  output_path,    \* candidate path of the current iteration
  last_exception, \* last_exception of download_article
  log,            \* records the module logger was given in this call
  invoked,        \* strategy functions called in this call
  outcome,        \* how the download_article call ended
  batch,          \* arguments of the running bulk_download_articles call
  bi,             \* position of the batch loop in dois
  results,        \* the results dict of bulk_download_articles
  processed,      \* per item of the batch: identifier and outcome
  keys,           \* the keys of results in insertion order
  stdout,         \* lines printed by bulk_download_articles
  slept,          \* completed time.sleep calls of the batch
  boutcome,       \* how the bulk_download_articles call ended
  level,          \* level of the module logger
  files,          \* log files on disk: path :> number of lines
  environ,        \* os.environ: the credentials of the strategies
  toolnet,        \* requests issued by the strategies in this call
  written,        \* destination files written by the strategies in this call
  ncalls,         \* download_article calls made by the caller so far
  cli,            \* the fulltext-download command: arguments, output, exit status
  strategy        \* a strategy function called directly: arguments, metadata, result

callvars == <<call, publisher, classified, net, method_list, idx, output_path,
              last_exception, log, invoked, outcome, toolnet, written>>
batchvars == <<batch, bi, results, keys, stdout, processed, slept, boutcome>>
procvars == <<environ, ncalls, cli, strategy>>
vars == <<pc, handlers, level, files, callvars, batchvars, procvars>>

Pending == [kind |-> "none"]
NoCli == [active |-> FALSE, status |-> -1, stdout |-> <<>>, stderr |-> <<>>]
NoStrategy == [active |-> FALSE, tool |-> "", doi |-> <<>>, path |-> PyNone,
               meta |-> Pending, url |-> PyNone, result |-> Pending]
NoCall == [doi |-> <<>>, output_dir |-> <<>>, output_filename |-> PyNone,
           tools |-> PyNone, log_file |-> PyNone]
NoBatch == [dois |-> <<>>, output_dir |-> <<>>, log_file |-> PyNone,
            sleep |-> 0, tqdm |-> FALSE, active |-> FALSE]

\* the process before any call, with os.environ env and log files fs
InitWith(env, fs) ==
  /\ pc = "idle"
  /\ call = NoCall
  /\ handlers = <<>>
  /\ publisher = Pending
  /\ classified = 0
  /\ net = <<>>
  /\ method_list = <<>>
  /\ idx = 0
  /\ output_path = PyNone
  /\ last_exception = PyNone
  /\ log = <<>>
  /\ invoked = <<>>
  /\ outcome = Pending
  /\ batch = NoBatch
  /\ bi = 0
  /\ results = <<>>
  /\ keys = <<>>
  /\ stdout = <<>>
  /\ processed = <<>>
  /\ slept = 0
  /\ boutcome = Pending
  /\ level = "NOTSET"
  /\ files = fs
  /\ environ = env
  /\ toolnet = <<>>
  /\ written = <<>>
  /\ ncalls = 0
  /\ cli = NoCli
  /\ strategy = NoStrategy

Init == \E env \in Environs : InitWith(env, NoFiles)

\* the state in which a download_article call with arguments c starts
Enter(c) ==
  /\ pc' = "logging"
  /\ call' = c
  /\ publisher' = Pending
  /\ classified' = 0
  /\ net' = <<>>
  /\ method_list' = <<>>
  /\ idx' = 0
  /\ output_path' = PyNone
  /\ last_exception' = PyNone
  /\ log' = <<>>
  /\ invoked' = <<>>
  /\ outcome' = Pending
  /\ toolnet' = <<>>
  /\ written' = <<>>

\* the frame of a finished download_article call is gone
Leave ==
  /\ call' = NoCall
  /\ publisher' = Pending
  /\ classified' = 0
  /\ net' = <<>>
  /\ method_list' = <<>>
  /\ idx' = 0
  /\ output_path' = PyNone
  /\ last_exception' = PyNone
  /\ log' = <<>>
  /\ invoked' = <<>>
  /\ outcome' = Pending
  /\ toolnet' = <<>>
  /\ written' = <<>>

\* an exception leaves download_article
Propagate(o) ==
  /\ pc' = "raised"
  /\ outcome' = o

\* a record handed to the module logger
Logged(rec) ==
  /\ log' = Append(log, rec)
  /\ files' = Emit(files, handlers, level, rec)


\* ------------------------------------------------------- download_article
\* a caller (the CLI, a script) calls download_article
CallDownloadArticle ==
  /\ pc = "idle"
  /\ \E d \in DOIs, od \in OutputDirs, fn \in OutputFilenames,
        tl \in ToolsArgs, lf \in LogFiles :
       Enter([doi |-> d, output_dir |-> od, output_filename |-> fn,
              tools |-> tl, log_file |-> lf])
  /\ UNCHANGED <<handlers, level, files, batchvars, procvars>>

\* lines 116-135: attach a FileHandler unless one exists for the same
\* absolute path; logging.FileHandler opens the file and may raise OSError;
\* line 135 sets the level of the logger whenever log_file is given
ConfigureLogging ==
  /\ pc = "logging"
  /\ IF Truthy(call.log_file)
     THEN IF AddHandlerNeeded(handlers, Abspath(call.log_file.v))
          THEN \E opened \in BOOLEAN :
                 IF opened
                 THEN /\ handlers' = Append(handlers, Abspath(call.log_file.v))
                      /\ files' = OpenAppend(files, Abspath(call.log_file.v))
                      /\ level' = "INFO"
                      /\ pc' = "makedirs"
                      /\ UNCHANGED outcome
                 ELSE /\ Propagate(Raise("OSError", "cannot open log file"))
                      /\ UNCHANGED <<handlers, files, level>>
          ELSE /\ level' = "INFO"
               /\ pc' = "makedirs"
               /\ UNCHANGED <<handlers, files, outcome>>
     ELSE /\ pc' = "makedirs"
          /\ UNCHANGED <<handlers, files, level, outcome>>
  /\ UNCHANGED <<call, publisher, classified, net, method_list, idx, output_path,
                 last_exception, log, invoked, toolnet, written, batchvars, procvars>>

\* line 137: os.makedirs(output_dir, exist_ok=True) may raise OSError
MakeOutputDir ==
  /\ pc = "makedirs"
  /\ \E created \in BOOLEAN :
       IF created
       THEN pc' = "select" /\ UNCHANGED outcome
       ELSE Propagate(Raise("OSError", "cannot create output directory"))
  /\ UNCHANGED <<handlers, level, call, publisher, classified, net, method_list, idx,
                 output_path, last_exception, log, files, invoked, toolnet, written, batchvars, procvars>>

\* lines 139 and 145-146: an explicit list is used as it is
UseExplicitTools ==
  /\ pc = "select"
  /\ ~ToolsIsNone(call.tools)
  /\ method_list' = ExplicitMethodList(call.tools)
  /\ idx' = 1
  /\ pc' = "loop"
  /\ UNCHANGED <<handlers, level, call, publisher, classified, net, output_path,
                 last_exception, log, files, invoked, toolnet, written, outcome, batchvars, procvars>>

\* lines 139-140 and 56-58: get_publisher_from_doi is called and looks the
\* prefix up in the static table before any request
ClassifyByPrefix ==
  /\ pc = "select"
  /\ ToolsIsNone(call.tools)
  /\ classified' = classified + 1
  /\ IF PrefixInTable(SplitFirst(call.doi))
     THEN /\ publisher' = Return(PyStr(PREPRINT_SERVER_PREFIXES[SplitFirst(call.doi)[1]]))
          /\ pc' = "lookup"
     ELSE /\ pc' = "crossref"
          /\ UNCHANGED publisher
  /\ UNCHANGED <<handlers, level, call, net, method_list, idx, output_path,
                 last_exception, log, files, invoked, toolnet, written, outcome, batchvars, procvars>>

\* get_publisher_from_doi has ended with o: a value goes to line 141, an
\* exception leaves download_article (line 140 is in no try block)
ClassifierEnds(o) ==
  /\ publisher' = o
  /\ IF o.kind = "raise"
     THEN Propagate(o)
     ELSE pc' = "lookup" /\ UNCHANGED outcome

\* lines 60-63 and 74-80: the CrossRef request and, unless the status is
\* 404, the extraction of message.publisher
QueryCrossref ==
  /\ pc = "crossref"
  /\ \E r \in CrossrefResponses :
       /\ net' = Append(net, [registry |-> "crossref", status |-> r.status])
       /\ IF RequestsGet(r).kind = "return" /\ NotFound(r)
          THEN /\ pc' = "datacite"
               /\ UNCHANGED <<publisher, outcome>>
          ELSE ClassifierEnds(ExceptException(
                 IF RequestsGet(r).kind = "raise" THEN RequestsGet(r)
                 ELSE CrossrefPublisher(r)))
  /\ UNCHANGED <<handlers, level, call, classified, method_list, idx, output_path,
                 last_exception, log, files, invoked, toolnet, written, batchvars, procvars>>

\* lines 64-73 and 78-80: the DataCite request after a CrossRef 404
QueryDatacite ==
  /\ pc = "datacite"
  /\ \E r2 \in DataciteResponses :
       /\ net' = Append(net, [registry |-> "datacite", status |-> r2.status])
       /\ ClassifierEnds(ExceptException(
            IF RequestsGet(r2).kind = "raise" THEN RequestsGet(r2)
            ELSE DatacitePublisher(r2)))
  /\ UNCHANGED <<handlers, level, call, classified, method_list, idx, output_path,
                 last_exception, log, files, invoked, toolnet, written, batchvars, procvars>>

\* lines 141-144: the strategy list of the publisher, or the default list
LookupMethodList ==
  /\ pc = "lookup"
  /\ IF MethodListFor(publisher.val).kind = "raise"
     THEN /\ Propagate(MethodListFor(publisher.val))
          /\ UNCHANGED <<method_list, idx>>
     ELSE /\ method_list' = MethodListFor(publisher.val).val
          /\ idx' = 1
          /\ pc' = "loop"
          /\ UNCHANGED outcome
  /\ UNCHANGED <<handlers, level, call, publisher, classified, net, output_path,
                 last_exception, log, files, invoked, toolnet, written, batchvars, procvars>>

\* lines 151-167: the next strategy of the list: candidate path, log line
StartAttempt ==
  /\ pc = "loop"
  /\ idx <= Len(method_list)
  /\ output_path' = OutputPath(call, method_list[idx])
  /\ Logged([level |-> "INFO", event |-> "Attempting",
             tool |-> method_list[idx], detail |-> ""])
  /\ pc' = "dispatch"
  /\ UNCHANGED <<handlers, level, call, publisher, classified, net, method_list, idx,
                 last_exception, invoked, toolnet, written, outcome, batchvars, procvars>>

\* a circuit breaker: the loop skips the strategies that failed for an
\* earlier identifier of the batch
SkipKnownFailures(i) ==
  LET failed == UNION { { processed[n].attempted[k] :
                            k \in 1..(Len(processed[n].attempted)
                                       - (IF processed[n].outcome.kind = "return" THEN 1 ELSE 0)) } :
                        n \in 1..Len(processed) }
      open == { j \in (i + 1)..Len(method_list) : method_list[j] \notin failed }
  IN  IF open = {} THEN Len(method_list) + 1
      ELSE CHOOSE j \in open : \A k \in open : j <= k

\* line 174: continue with the next element of method_list
NextAfterFailure(i) == i + 1

\* a loop without the except clause: the failure leaves download_article
RethrowFailure(e) ==
  /\ last_exception' = last_exception
  /\ log' = log
  /\ files' = files
  /\ idx' = idx
  /\ pc' = "raised"
  /\ outcome' = [kind |-> "raise", exc |-> e]

\* lines 171-174: except Exception as e
CatchFailure(e) ==
  /\ last_exception' = KeepLastException(last_exception, e)
  /\ Logged([level |-> "WARNING", event |-> "failed",
             tool |-> method_list[idx], detail |-> e.msg.text])
  /\ idx' = NextAfterFailure(idx)
  /\ pc' = "loop"
  /\ outcome' = outcome

\* a loop that passes over an unregistered name and records no failure
SkipUnknown(tool) ==
  /\ last_exception' = last_exception
  /\ log' = log
  /\ files' = files
  /\ idx' = idx + 1
  /\ pc' = "loop"
  /\ outcome' = outcome

\* lines 168 and 171-174: the subscription TOOL_FUNCTIONS[tool] stands in
\* the try block, so its KeyError is handled like a failure of a strategy
FailUnknown(tool) == CatchFailure([type |-> "KeyError", msg |-> Msg(tool)])

\* line 168: TOOL_FUNCTIONS[tool] of an unregistered name raises KeyError
DispatchUnknown ==
  /\ pc = "dispatch"
  /\ method_list[idx] \notin TOOL_FUNCTIONS
  /\ FailUnknown(method_list[idx])
  /\ UNCHANGED <<handlers, level, call, publisher, classified, net, method_list,
                 output_path, invoked, toolnet, written, batchvars, procvars>>

\* line 168: the strategy function is called with (doi, output_path)
InvokeTool ==
  /\ pc = "dispatch"
  /\ method_list[idx] \in TOOL_FUNCTIONS
  /\ invoked' = Append(invoked, [tool |-> method_list[idx], pos |-> idx,
                                 doi |-> call.doi, path |-> output_path])
  /\ pc' = "running"
  /\ UNCHANGED <<handlers, level, call, publisher, classified, net, method_list, idx,
                 output_path, last_exception, log, files, outcome, toolnet, written,
                 batchvars, procvars>>

\* a download_article that goes on with the list after a success
GoOnAfterSuccess(o) ==
  /\ Logged([level |-> "INFO", event |-> "Success",
             tool |-> method_list[idx], detail |-> o.val])
  /\ idx' = idx + 1
  /\ pc' = IF idx + 1 > Len(method_list) THEN "returned" ELSE "loop"
  /\ outcome' = IF idx + 1 > Len(method_list) THEN o ELSE outcome

\* lines 169-170: log the success and return result_path at once
ReturnOnSuccess(o) ==
  /\ Logged([level |-> "INFO", event |-> "Success",
             tool |-> method_list[idx], detail |-> o.val])
  /\ idx' = idx
  /\ pc' = "returned"
  /\ outcome' = o

\* what an execution r of the strategy at position idx leaves behind
Executed(r) ==
  /\ toolnet' = toolnet \o [k \in 1..Len(r.requests) |->
                              [pos |-> idx, tool |-> r.requests[k].tool,
                               step |-> r.requests[k].step]]
  /\ written' = IF r.wrote THEN Append(written, [pos |-> idx, path |-> output_path])
                 ELSE written

\* lines 168-170: the strategy returns a path
ToolReturns ==
  /\ pc = "running"
  /\ \E r \in StrategyRuns(method_list[idx], output_path, environ) :
       /\ r.result.kind = "return"
       /\ Executed(r)
       /\ ReturnOnSuccess(r.result)
  /\ UNCHANGED <<handlers, level, call, publisher, classified, net, method_list,
                 output_path, last_exception, invoked, batchvars, procvars>>

\* lines 168 and 171-174: the strategy raises
ToolRaises ==
  /\ pc = "running"
  /\ \E r \in StrategyRuns(method_list[idx], output_path, environ) :
       /\ r.result.kind = "raise"
       /\ Executed(r)
       /\ CatchFailure(r.result.exc)
  /\ UNCHANGED <<handlers, level, call, publisher, classified, net, method_list,
                 output_path, invoked, batchvars, procvars>>

\* lines 175-181: the list is exhausted
RaiseAllFailed ==
  /\ pc = "loop"
  /\ idx > Len(method_list)
  /\ Logged([level |-> "ERROR", event |-> "All download methods failed",
             tool |-> "", detail |-> ""])
  /\ Propagate(AllFailedError(call.doi, last_exception))
  /\ UNCHANGED <<handlers, level, call, publisher, classified, net, method_list, idx,
                 output_path, last_exception, invoked, toolnet, written, batchvars, procvars>>

\* the steps of a call made with tools=None: the list then comes from
\* PUBLISHER_TOOL_MAP or the default, which hold registered names only
DerivedListStep ==
  \/ ConfigureLogging
  \/ MakeOutputDir
  \/ ClassifyByPrefix
  \/ QueryCrossref
  \/ QueryDatacite
  \/ LookupMethodList
  \/ StartAttempt
  \/ InvokeTool
  \/ ToolReturns
  \/ ToolRaises
  \/ RaiseAllFailed

DownloadArticleStep ==
  \/ DerivedListStep
  \/ UseExplicitTools
  \/ DispatchUnknown

Next ==
  \/ CallDownloadArticle
  \/ DownloadArticleStep

Spec == Init /\ [][Next]_vars


\* ------------------------------------------------- bulk_download_articles
\* identifier lists of a batch (elements may repeat)
BatchDois == { <<"10.48550", "/", "arXiv.2504.00812">>,
               <<"10.1016", "/", "j.msea.2025.148402">> }

\* two distinct identifiers that differ only in characters the file name
\* does not keep: "10.48550/a/b" and "10.48550/a_b"
CollidingDois == << <<"10.48550", "/", "a", "/", "b">>, <<"10.48550", "/", "a_b">> >>

\* the dois arguments of a batch
BatchLists == SeqsUpTo(BatchDois, MaxDois) \cup {CollidingDois}

\* sleep arguments, in tenths of a second
Sleeps == {0, 2}

\* f"ERROR: {e}"
ErrorString(exc) == [t |-> "error_text", head |-> <<"ERROR", ":", " ">>, msg |-> exc.msg]

\* tokens that begin with the characters ERROR
ErrorPrefixedTokens == {"ERROR", "ERRORS"}

\* lines 220-221: isinstance(res, str) and res.startswith("ERROR")
StartsWithERROR(res) ==
  IF res.t = "error_text" THEN res.head[1] \in ErrorPrefixedTokens
  ELSE Len(res.v) > 0 /\ res.v[1] \in ErrorPrefixedTokens

\* lines 220-221: the failed identifiers, in the order of the dict
FailedKeys(ks, res) == SelectSeq(ks, LAMBDA d : StartsWithERROR(res[d]))

\* lines 222-225: the lines of the summary
SummaryLines(ks, res) ==
  IF FailedKeys(ks, res) = <<>> THEN <<>>
  ELSE <<[text |-> "The following DOIs could not be downloaded:", doi |-> <<>>]>>
       \o [i \in 1..Len(FailedKeys(ks, res)) |->
             [text |-> "  - ", doi |-> FailedKeys(ks, res)[i]]]

\* a loop that records successes only
StoreSuccessOnly(d, o) ==
  IF o.kind = "return" THEN Return(d :> o.val) ELSE Return(<<>>)

\* a handler that catches the final Exception of download_article only
StoreAllFailedOnly(d, o) ==
  IF o.kind = "return" THEN Return(d :> o.val)
  ELSE IF o.exc.type = "Exception" THEN Return(d :> ErrorString(o.exc))
  ELSE o

\* lines 206-211: the entry written for identifier d when the call ended
\* with o; except Exception catches every exception modelled here
StoreResult(d, o) ==
  IF o.kind = "return" THEN Return(d :> o.val)
  ELSE Return(d :> ErrorString(o.exc))

\* output_dir, log_file and sleep arguments of a batch: the directory of
\* the example script with every log_file and sleep, and a directory whose
\* name begins with the characters ERROR
BatchArgs ==
  { [output_dir |-> od, log_file |-> lf, sleep |-> sl] :
      od \in OutputDirs, lf \in LogFiles, sl \in Sleeps }
  \cup { [output_dir |-> <<"ERRORS">>, log_file |-> PyNone, sleep |-> 0] }

\* lines 194-204; tq: the tqdm package can be imported
CallBulkDownload ==
  /\ pc = "idle"
  /\ \E ds \in BatchLists, a \in BatchArgs, tq \in BOOLEAN :
       batch' = [dois |-> ds, output_dir |-> a.output_dir, log_file |-> a.log_file,
                 sleep |-> a.sleep, tqdm |-> (Len(ds) > 1 /\ tq), active |-> TRUE]
  /\ bi' = 1
  /\ results' = <<>>
  /\ keys' = <<>>
  /\ stdout' = <<>>
  /\ processed' = <<>>
  /\ slept' = 0
  /\ boutcome' = Pending
  /\ pc' = "batch_loop"
  /\ UNCHANGED <<handlers, level, files, callvars, procvars>>

\* lines 205-208: the next identifier, with the strategy list derived from
\* the classification and the file name derived from the identifier
BatchCallsDownload ==
  /\ pc = "batch_loop"
  /\ bi <= Len(batch.dois)
  /\ Enter([doi |-> batch.dois[bi], output_dir |-> batch.output_dir,
            output_filename |-> PyNone, tools |-> PyNone,
            log_file |-> batch.log_file])
  /\ UNCHANGED <<handlers, level, files, batchvars, procvars>>

\* a loop that goes to the next identifier without storing the entry
KeepResults(res, entry) == res

\* a loop that rebinds results to a new dict holding the new entry only
ReplaceResults(res, entry) == entry

\* lines 209 and 211: results[doi] = ... adds the entry, or replaces the
\* entry the key already has
MergeResult(res, entry) == entry @@ res

\* lines 209-214: the call returned or raised
BatchStores ==
  /\ batch.active
  /\ pc \in {"returned", "raised"}
  /\ processed' = Append(processed, [doi |-> call.doi, outcome |-> outcome,
                                     method_list |-> method_list,
                                     attempted |-> [i \in 1..Len(invoked) |-> invoked[i].tool]])
  /\ IF StoreResult(call.doi, outcome).kind = "return"
     THEN /\ results' = MergeResult(results, StoreResult(call.doi, outcome).val)
          /\ keys' = IF \E i \in 1..Len(keys) : keys[i] = call.doi
                     THEN keys ELSE Append(keys, call.doi)
          /\ stdout' = IF outcome.kind = "raise" /\ ~batch.tqdm
                       THEN Append(stdout, [text |-> "Failed to download",
                                            doi |-> call.doi])
                       ELSE stdout
          /\ pc' = "batch_sleep"
          /\ UNCHANGED boutcome
     ELSE /\ boutcome' = StoreResult(call.doi, outcome)
          /\ pc' = "batch_raised"
          /\ UNCHANGED <<results, keys, stdout>>
  /\ Leave
  /\ UNCHANGED <<handlers, level, files, batch, bi, slept, procvars>>

\* a loop that pauses between identifiers only, not after the last one
SleptAfterExceptLast(n, sleep, i, total) ==
  IF sleep > 0 /\ i < total THEN n + 1 ELSE n

\* lines 215-217: if sleep > 0: time.sleep(sleep), for item i of total
SleptAfter(n, sleep, i, total) ==
  IF sleep > 0 THEN n + 1 ELSE n

\* lines 215-217, then the loop goes to the next identifier
BatchSleeps ==
  /\ pc = "batch_sleep"
  /\ slept' = SleptAfter(slept, batch.sleep, bi, Len(batch.dois))
  /\ bi' = bi + 1
  /\ pc' = "batch_loop"
  /\ UNCHANGED <<handlers, level, files, callvars, batch, results, keys, stdout, processed,
                 boutcome, procvars>>

\* lines 218-226: after the loop
BatchReturns ==
  /\ pc = "batch_loop"
  /\ bi > Len(batch.dois)
  /\ stdout' = IF batch.tqdm THEN stdout \o SummaryLines(keys, results) ELSE stdout
  /\ boutcome' = Return(results)
  /\ pc' = "batch_done"
  /\ UNCHANGED <<handlers, level, files, callvars, batch, bi, results, keys, processed,
                 slept, procvars>>

NextBulk ==
  \/ CallBulkDownload
  \/ BatchCallsDownload
  \/ DerivedListStep
  \/ BatchStores
  \/ BatchSleeps
  \/ BatchReturns

\* the batch runs in a process with every credential configured
InitBulk == InitWith(FullEnviron, NoFiles)

SpecBulk == InitBulk /\ [][NextBulk]_vars


\* ------------------------------------- repeated calls of download_article
\* number of download_article calls a caller makes one after the other
MaxCalls == 3

\* log_file arguments of the repeated calls: none, one file spelled as a
\* relative and as an absolute path, and a second file
LogFilesMany == { PyNone, PyText(<<"download.log">>),
                  PyText(Cwd \o <<"/", "download.log">>), PyText(<<"other.log">>) }

\* strategy lists of the repeated calls
RepeatedTools == { PyList(<<>>), PyList(<<"unpaywall">>) }

\* a log file that exists before the first call and holds one line
OldLog == Abspath(<<"download.log">>) :> 1

\* the caller calls download_article, for the first time or once more after
\* the previous call returned or raised
CallAgain ==
  /\ pc \in {"idle", "returned", "raised"}
  /\ ~batch.active
  /\ ~cli.active
  /\ ncalls < MaxCalls
  /\ ncalls' = ncalls + 1
  /\ \E tl \in RepeatedTools, lf \in LogFilesMany :
       Enter([doi |-> <<"10.48550", "/", "arXiv.2504.00812">>, output_dir |-> <<"papers">>,
              output_filename |-> PyNone, tools |-> tl, log_file |-> lf])
  /\ UNCHANGED <<handlers, level, files, batchvars, environ, cli, strategy>>

NextLog ==
  \/ CallAgain
  \/ ConfigureLogging
  \/ MakeOutputDir
  \/ UseExplicitTools
  \/ StartAttempt
  \/ InvokeTool
  \/ ToolReturns
  \/ ToolRaises
  \/ RaiseAllFailed

InitLog == \E fs \in {NoFiles, OldLog} : InitWith(FullEnviron, fs)

SpecLog == InitLog /\ [][NextLog]_vars


\* ------------------------------------------------ the fulltext-download command
\* a handler written `except:` or `except BaseException:`
BareExceptCatches(type) == TRUE

\* cli.py line 25: `except Exception` catches every exception but those
\* derived from BaseException only, such as the SystemExit of sys.exit
CliExceptCatches(type) == type \notin {"SystemExit", "KeyboardInterrupt", "GeneratorExit"}

\* cli.py lines 26-27: the handler prints the error and exits with 1
CliHandles(e) ==
  [active |-> TRUE, status |-> 1, stdout |-> cli.stdout,
   stderr |-> Append(cli.stderr, [text |-> "Error downloading", doi |-> call.doi,
                                  type |-> e.type, msg |-> e.msg])]

\* an exception nothing catches ends the interpreter: SystemExit(n) with
\* status n and no output, any other with status 1 and a traceback
CliUncaught(e) ==
  [active |-> TRUE, status |-> IF e.type = "SystemExit" THEN e.code ELSE 1,
   stdout |-> cli.stdout,
   stderr |-> IF e.type = "SystemExit" THEN cli.stderr
              ELSE Append(cli.stderr, [text |-> "Traceback", doi |-> call.doi,
                                       type |-> e.type, msg |-> e.msg])]

\* cli.py lines 8-22: the arguments are parsed and download_article is
\* called with the default strategies and no log file
CliStarts ==
  /\ pc = "idle"
  /\ cli' = [NoCli EXCEPT !.active = TRUE]
  /\ \E d \in DOIs, od \in OutputDirs, fn \in OutputFilenames :
       Enter([doi |-> d, output_dir |-> od, output_filename |-> fn,
              tools |-> PyNone, log_file |-> PyNone])
  /\ UNCHANGED <<handlers, level, files, batchvars, environ, ncalls, strategy>>

\* cli.py lines 23-24 and 25-27: download_article returned; the
\* confirmation is printed and sys.exit(0) raises SystemExit inside the try
CliSucceeds ==
  /\ cli.active
  /\ pc = "returned"
  /\ LET printed == [cli EXCEPT !.stdout = Append(cli.stdout,
                         [text |-> "Successfully downloaded", doi |-> call.doi,
                          path |-> outcome.val])]
         exit == [type |-> "SystemExit", code |-> 0, msg |-> Msg("0")]
     IN  cli' = IF CliExceptCatches(exit.type)
                THEN [CliHandles(exit) EXCEPT !.stdout = printed.stdout]
                ELSE [CliUncaught(exit) EXCEPT !.stdout = printed.stdout]
  /\ pc' = "exited"
  /\ UNCHANGED <<handlers, level, files, callvars, batchvars, environ, ncalls, strategy>>

\* cli.py lines 25-27: download_article raised
CliFails ==
  /\ cli.active
  /\ pc = "raised"
  /\ cli' = IF CliExceptCatches(outcome.exc.type)
            THEN CliHandles(outcome.exc)
            ELSE CliUncaught(outcome.exc)
  /\ pc' = "exited"
  /\ UNCHANGED <<handlers, level, files, callvars, batchvars, environ, ncalls, strategy>>

NextCli ==
  \/ CliStarts
  \/ DerivedListStep
  \/ CliSucceeds
  \/ CliFails

SpecCli == Init /\ [][NextCli]_vars


\* ---------------------------------------- direct calls of a strategy
\* a caller (a test, a script) calls download_via_unpaywall or
\* download_via_crossref_tdm with an identifier and a destination
CallStrategy ==
  /\ pc = "idle"
  /\ \E t \in MetadataTools, d \in DOIs :
       strategy' = [NoStrategy EXCEPT !.active = TRUE, !.tool = t, !.doi = d,
                                      !.path = PyText(<<"out", ".pdf">>)]
  /\ pc' = "tool_lookup"
  /\ UNCHANGED <<handlers, level, files, callvars, batchvars, environ, ncalls, cli>>

\* tools.py lines 118-135 and 184-199: the credential, the metadata request
\* and the URL of the PDF
LookupMetadata ==
  /\ pc = "tool_lookup"
  /\ \E r \in MetadataResponses(strategy.tool) :
       LET m == MetadataLookup(strategy.tool, environ, r)
       IN  /\ toolnet' = IF m.sent
                         THEN Append(toolnet, [pos |-> 0, tool |-> strategy.tool, step |-> "api"])
                         ELSE toolnet
           /\ strategy' = [strategy EXCEPT
                 !.meta = IF m.sent THEN r ELSE Pending,
                 !.url = IF m.result.kind = "return" THEN m.result.val ELSE PyNone,
                 !.result = IF m.result.kind = "raise" THEN m.result ELSE Pending]
           /\ pc' = IF m.result.kind = "raise" THEN "tool_raised" ELSE "tool_download"
  /\ UNCHANGED <<handlers, level, files, call, publisher, classified, net, method_list,
                 idx, output_path, last_exception, log, invoked, outcome, written,
                 batchvars, environ, ncalls, cli>>

\* tools.py lines 137 and 201: _download_file(pdf_url, output_path)
DownloadPdf ==
  /\ pc = "tool_download"
  /\ \E d \in DownloadResponses, writable \in BOOLEAN :
       LET o == DownloadFile(d, strategy.path, writable)
       IN  /\ toolnet' = Append(toolnet, [pos |-> 0, tool |-> strategy.tool, step |-> "file"])
           /\ written' = IF o.kind = "return"
                         THEN Append(written, [pos |-> 0, path |-> strategy.path])
                         ELSE written
           /\ strategy' = [strategy EXCEPT !.result = o]
           /\ pc' = IF o.kind = "return" THEN "tool_returned" ELSE "tool_raised"
  /\ UNCHANGED <<handlers, level, files, call, publisher, classified, net, method_list,
                 idx, output_path, last_exception, log, invoked, outcome,
                 batchvars, environ, ncalls, cli>>

NextTools ==
  \/ CallStrategy
  \/ LookupMetadata
  \/ DownloadPdf

SpecTools == Init /\ [][NextTools]_vars


\* ------------------------------------------------------------- properties
\* the log of a call that tried the first n strategies of method_list, the
\* first n-1 of which failed, is: Attempting, failed, ..., Attempting, last
AttemptsInOrder(n, last) ==
  /\ n <= Len(method_list)
  /\ Len(log) >= 2 * n
  /\ \A i \in 1..n :
       /\ log[2 * i - 1].event = "Attempting"
       /\ log[2 * i - 1].tool = method_list[i]
       /\ log[2 * i].event = (IF i < n THEN "failed" ELSE last)
       /\ log[2 * i].tool = method_list[i]

\* the final error of download_article
IsAllFailed(o) ==
  /\ o.kind = "raise"
  /\ o.exc.type = "Exception"
  /\ o.exc.msg.text = "All download methods failed for DOI"

\* C1: when download_article returns, the strategies 1..K+1 of the list were
\* attempted once each in list order, the first K failed, strategy K+1
\* succeeded, the value returned is the path strategy K+1 returned, and no
\* strategy after position K+1 was called.
C1_FirstSuccessWins ==
  pc = "returned" =>
    /\ idx >= 1
    /\ AttemptsInOrder(idx, "Success")
    /\ Len(log) = 2 * idx
    /\ \A j \in 1..Len(invoked) : invoked[j].pos <= idx
    /\ \A j, k \in 1..Len(invoked) : j < k => invoked[j].pos < invoked[k].pos
    /\ Len(invoked) >= 1
    /\ invoked[Len(invoked)].pos = idx
    /\ invoked[Len(invoked)].tool = method_list[idx]
    /\ outcome = Return(invoked[Len(invoked)].path)

\* a return after one failure, with a strategy of the list left untried
C1_Witness ==
  /\ pc = "returned"
  /\ idx = 2
  /\ Len(method_list) = 3
  /\ log[2].event = "failed"

\* C2: when every strategy of a non-empty list has failed, each was
\* attempted once in list order, the call raises the final error, its
\* message names the identifier and carries the failure text of the last
\* strategy of the list, and no path is returned.
C2_AllFailLastError ==
  (pc = "raised" /\ idx >= 1 /\ Len(method_list) >= 1) =>
    /\ idx = Len(method_list) + 1
    /\ AttemptsInOrder(Len(method_list), "failed")
    /\ Len(log) = 2 * Len(method_list) + 1
    /\ IsAllFailed(outcome)
    /\ outcome.exc.msg.doi = call.doi
    /\ outcome.exc.msg.has_last
    /\ outcome.exc.msg.last = log[2 * Len(method_list)].detail

\* all of two strategies failed, with different failure texts
C2_Witness ==
  /\ pc = "raised"
  /\ Len(method_list) = 2
  /\ idx = 3
  /\ log[2].detail # log[4].detail
  /\ outcome.exc.msg.last = log[4].detail

\* C3: a call with an explicit empty list invokes no strategy, records no
\* attempt, never classifies the identifier, iterates over the empty list
\* and, once the loop is reached, ends with the final error.
C3_EmptyListFailsAtOnce ==
  (call.tools.t = "list" /\ call.tools.v = <<>>) =>
    /\ invoked = <<>>
    /\ \A i \in 1..Len(log) : log[i].event # "Attempting"
    /\ classified = 0
    /\ net = <<>>
    /\ pc \notin {"returned", "lookup", "crossref", "datacite", "dispatch", "running"}
    /\ idx >= 1 => method_list = <<>>
    /\ (pc = "raised" /\ idx >= 1) =>
         /\ IsAllFailed(outcome)
         /\ ~outcome.exc.msg.has_last

\* the final error of a call with tools=[]
C3_Witness ==
  /\ pc = "raised"
  /\ call.tools.t = "list"
  /\ call.tools.v = <<>>
  /\ IsAllFailed(outcome)

Range(q) == { q[i] : i \in 1..Len(q) }

\* C4 as stated: the mapping returned for N identifiers has N entries
C4_Original ==
  pc = "batch_done" => Cardinality(DOMAIN boutcome.val) = Len(batch.dois)

\* C4 amended: the mapping returned has exactly one entry per distinct
\* input identifier, whatever succeeded or failed; it has N entries when
\* the N identifiers are pairwise distinct.
C4_OneEntryPerDistinctDoi ==
  pc = "batch_done" =>
    /\ boutcome.kind = "return"
    /\ DOMAIN boutcome.val = Range(batch.dois)
    /\ (Cardinality(Range(batch.dois)) = Len(batch.dois)
          => Cardinality(DOMAIN boutcome.val) = Len(batch.dois))

\* a batch of two distinct identifiers, one resolved and one failed
C4_Witness ==
  /\ pc = "batch_done"
  /\ Len(batch.dois) = 2
  /\ batch.dois[1] # batch.dois[2]
  /\ boutcome.val[batch.dois[1]].t = "error_text"
  /\ boutcome.val[batch.dois[2]].t = "text"

\* C5: the batch processes the identifiers in input order; a failure of
\* item i, a failure of the setup included, is stored as the error entry
\* of identifier i; the batch call does not raise; every later identifier
\* is still processed.
C5_PartialFailure ==
  /\ pc # "batch_raised"
  /\ boutcome.kind # "raise"
  /\ Len(processed) <= Len(batch.dois)
  /\ \A i \in 1..Len(processed) : processed[i].doi = batch.dois[i]
  /\ pc = "batch_sleep" =>
       /\ Len(processed) = bi
       /\ processed[bi].doi \in DOMAIN results
       /\ processed[bi].outcome.kind = "raise" =>
            /\ results[processed[bi].doi].t = "error_text"
            /\ results[processed[bi].doi].msg = processed[bi].outcome.exc.msg
       /\ processed[bi].outcome.kind = "return" =>
            results[processed[bi].doi] = processed[bi].outcome.val
  /\ pc = "batch_done" => Len(processed) = Len(batch.dois)

\* the first item failed in its setup and the second was still resolved
C5_Witness ==
  /\ pc = "batch_done"
  /\ Len(processed) = 2
  /\ processed[1].outcome.kind = "raise"
  /\ processed[1].outcome.exc.type = "OSError"
  /\ processed[2].outcome.kind = "return"

\* C6 as stated: every error leaving download_article is the final error
C6_Original ==
  pc = "raised" => IsAllFailed(outcome)

\* C6 amended: no error of a strategy or of the dispatch leaves
\* download_article; from the loop on the only error raised is the final
\* error.  Errors raised before the loop are not wrapped: the OSError of
\* the log-file attachment or of the output-directory creation, and the
\* TypeError of the strategy-table lookup, reach the caller as they are.
C6_OnlySetupErrorsUnwrapped ==
  pc = "raised" =>
    /\ outcome.kind = "raise"
    /\ \/ IsAllFailed(outcome) /\ idx = Len(method_list) + 1
       \/ /\ outcome.exc.type = "OSError"
          /\ idx = 0 /\ log = <<>> /\ invoked = <<>> /\ classified = 0
       \/ /\ outcome.exc.type = "TypeError"
          /\ idx = 0 /\ log = <<>> /\ invoked = <<>>
          /\ publisher.kind = "return" /\ ~Hashable(publisher.val)
    /\ \A i \in 1..Len(log) :
         log[i].event = "failed" => outcome.exc.msg.text # log[i].detail

\* the output directory cannot be created in a call with a log file
C6_Witness ==
  /\ pc = "raised"
  /\ outcome.exc.type = "OSError"
  /\ outcome.exc.msg.text = "cannot create output directory"
  /\ Truthy(call.log_file)

\* the substring before the first "/" is a key of the prefix table
HasTablePrefix(d) ==
  /\ Len(d) >= 1
  /\ d[1] \in DOMAIN PREPRINT_SERVER_PREFIXES
  /\ (Len(d) = 1 \/ d[2] = "/")

\* C7: for an identifier whose prefix is a key of the prefix table the
\* classifier returns the mapped source and issues no registry request;
\* 10.48550/... gives "arXiv" and 10.1101/... gives "bioRxiv".
C7_PrefixFastPath ==
  (classified > 0 /\ HasTablePrefix(call.doi)) =>
    /\ publisher = Return(PyStr(PREPRINT_SERVER_PREFIXES[call.doi[1]]))
    /\ net = <<>>
    /\ pc \notin {"crossref", "datacite"}
    /\ call.doi[1] = "10.48550" => publisher.val.v = "arXiv"
    /\ call.doi[1] = "10.1101" => publisher.val.v = "bioRxiv"

\* the arXiv identifier of the examples, classified without a request
C7_Witness ==
  /\ pc = "lookup"
  /\ call.doi = <<"10.48550", "/", "arXiv.2504.00812">>
  /\ publisher = Return(PyStr("arXiv"))
  /\ net = <<>>

\* the strategies of the Attempting records, in order
RECURSIVE AttemptedTools(_)
AttemptedTools(l) ==
  IF l = <<>> THEN <<>>
  ELSE IF Head(l).event = "Attempting" THEN <<Head(l).tool>> \o AttemptedTools(Tail(l))
  ELSE AttemptedTools(Tail(l))

\* C8: with an explicit list the classifier is never called, no registry
\* request is issued, the list iterated is the list supplied, and the
\* strategies attempted are its elements in its order.
C8_ExplicitListBypassesClassifier ==
  call.tools.t = "list" =>
    /\ classified = 0
    /\ net = <<>>
    /\ publisher = Pending
    /\ pc \notin {"lookup", "crossref", "datacite"}
    /\ idx >= 1 => method_list = call.tools.v
    /\ Len(AttemptedTools(log)) <= Len(call.tools.v)
    /\ AttemptedTools(log) = SubSeq(call.tools.v, 1, Len(AttemptedTools(log)))
    /\ (pc = "raised" /\ idx >= 1) => AttemptedTools(log) = call.tools.v

\* both strategies of an explicit list were attempted and failed
C8_Witness ==
  /\ pc = "raised"
  /\ call.tools.t = "list"
  /\ call.tools.v = <<"elsevier", "unpaywall">>
  /\ AttemptedTools(log) = <<"elsevier", "unpaywall">>

\* C9: without an explicit list the list iterated is the strategy-table
\* entry of the classified source; it is <<unpaywall, crossref_tdm>> when
\* the source is None or has no entry, a source of the prefix table
\* included; the arXiv and bioRxiv lists begin with paperscraper and hold
\* unpaywall after it.
C9_DerivedList ==
  (call.tools.t = "None" /\ idx >= 1) =>
    /\ publisher.kind = "return"
    /\ (publisher.val.t = "str" /\ publisher.val.v \in DOMAIN PUBLISHER_TOOL_MAP)
         => method_list = PUBLISHER_TOOL_MAP[publisher.val.v]
    /\ ~(publisher.val.t = "str" /\ publisher.val.v \in DOMAIN PUBLISHER_TOOL_MAP)
         => method_list = <<"unpaywall", "crossref_tdm">>
    /\ call.doi[1] = "10.48550"
         => method_list = <<"paperscraper", "arxiv", "unpaywall">>
    /\ call.doi[1] = "10.1101" /\ Len(call.doi) = 3
         => method_list = <<"paperscraper", "unpaywall">>
    /\ call.doi[1] = "10.21203" => method_list = <<"unpaywall", "crossref_tdm">>

\* a source of the prefix table without a strategy-table entry
C9_Witness ==
  /\ idx >= 1
  /\ call.tools.t = "None"
  /\ publisher = Return(PyStr("Research Square"))
  /\ method_list = <<"unpaywall", "crossref_tdm">>

\* C10 as stated: get_publisher_from_doi never raises, returns a source
\* name or None whatever the registries answer, and its result never
\* makes download_article fail before the first strategy.
C10_ClassifierNeverAborts ==
  /\ publisher.kind # "raise"
  /\ publisher.kind = "return" => publisher.val.t \in {"str", "None"}
  /\ ~(pc = "raised" /\ classified > 0 /\ idx = 0)

\* the part of C10 that holds: no outcome of the requests makes
\* get_publisher_from_doi raise
ClassifierNeverRaises == publisher.kind # "raise"

\* C11: whatever log files a sequence of download_article calls names, the
\* module logger never holds two handlers for one absolute path; a step
\* that logs one record adds at most one line to any log file, a step that
\* logs nothing adds none; and no log file ever loses a line (append mode)
C11_OneHandlerPerLogFile ==
  /\ [](\A i, j \in 1..Len(handlers) :
          i # j => Abspath(handlers[i]) # Abspath(handlers[j]))
  /\ [][\A p \in DOMAIN files :
          /\ p \in DOMAIN files'
          /\ files'[p] >= files[p]
          /\ files'[p] - files[p] <= IF Len(log') = Len(log) + 1 THEN 1 ELSE 0]_vars

\* a later call names, by its relative spelling, the log file that already
\* holds the line it had at the start and the lines of an earlier call
C11_Witness ==
  /\ ncalls >= 2
  /\ pc = "raised"
  /\ call.log_file = PyText(<<"download.log">>)
  /\ Len(handlers) = 1
  /\ files[handlers[1]] >= 5

\* the error text of a credential-requiring strategy whose credential is
\* not configured
MissingConfigText ==
  [elsevier     |-> "ELSEVIER_API_KEY is not set",
   wiley        |-> "WILEY_API_KEY is not set",
   unpaywall    |-> "UNPAYWALL_EMAIL is not set",
   springeropen |-> "SPRINGER_API_KEY is not set"]

CredentialName ==
  [elsevier     |-> "ELSEVIER_API_KEY",
   wiley        |-> "WILEY_API_KEY",
   unpaywall    |-> "UNPAYWALL_EMAIL",
   springeropen |-> "SPRINGER_API_KEY"]

\* t needs a credential and the process has none (unset or empty)
CredentialAbsent(t) ==
  /\ t \in DOMAIN CredentialName
  /\ \/ CredentialName[t] \notin DOMAIN environ
     \/ environ[CredentialName[t]] = ""

\* C12: a call of elsevier, wiley, unpaywall or springeropen made while its
\* credential is absent ends with the missing-configuration error, having
\* issued no request and written no file; and download_article with such a
\* strategy as its only strategy raises the final error carrying that text
\* after exactly one attempt.
C12_MissingCredentialFailsFirst ==
  /\ \A j \in 1..Len(invoked) :
       (CredentialAbsent(invoked[j].tool) /\ (j < Len(invoked) \/ pc # "running"))
         => /\ Len(log) >= 2 * invoked[j].pos
            /\ log[2 * invoked[j].pos].event = "failed"
            /\ log[2 * invoked[j].pos].detail = MissingConfigText[invoked[j].tool]
            /\ \A k \in 1..Len(toolnet) : toolnet[k].pos # invoked[j].pos
            /\ \A k \in 1..Len(written) : written[k].pos # invoked[j].pos
  /\ (/\ Len(method_list) = 1
      /\ CredentialAbsent(method_list[1])
      /\ pc \in {"returned", "raised"})
       => /\ IsAllFailed(outcome)
          /\ outcome.exc.msg.has_last
          /\ outcome.exc.msg.last = MissingConfigText[method_list[1]]
          /\ Len(invoked) = 1
          /\ AttemptedTools(log) = method_list

\* wiley is the only strategy, WILEY_API_KEY is not set, the call has raised
C12_Witness ==
  /\ call.tools = PyList(<<"wiley">>)
  /\ environ = NoEnviron
  /\ pc = "raised"
  /\ Len(invoked) = 1

\* the file name expected for strategy tool in a call with arguments
\* c; an empty string is no file name (line 153 tests its truth value)
C13_ExpectedName(c, tool) ==
  LET ext == IF tool = "elsevier" \/ tool = "springeropen" THEN ".xml" ELSE ".pdf"
      fn  == c.output_filename
  IN  IF fn = PyNone \/ fn = PyText(<<>>)
      THEN [i \in 1..Len(c.doi) |->
              IF c.doi[i] \in {"/", ":", " "} THEN "_" ELSE c.doi[i]] \o <<ext>>
      ELSE IF fn.v[Len(fn.v)] \in {".pdf", ".xml", ".txt"} /\ Len(fn.v) > 1
           THEN fn.v
           ELSE fn.v \o <<ext>>

\* C13: the path handed to each attempted strategy is output_dir joined
\* with: the sanitized identifier plus the extension of that strategy when
\* no file name was given; the given file name as it is when it has an
\* extension; the given file name plus the extension of that strategy when
\* it has none (.xml for elsevier and springeropen, .pdf otherwise).
C13_CandidatePath ==
  /\ pc \in {"dispatch", "running"} =>
       output_path = PyText(call.output_dir \o <<"/">>
                              \o C13_ExpectedName(call, method_list[idx]))
  /\ \A j \in 1..Len(invoked) :
       invoked[j].path = PyText(call.output_dir \o <<"/">>
                                  \o C13_ExpectedName(call, invoked[j].tool))

\* a file name without extension, unpaywall failed with paper.pdf and
\* elsevier is then called with paper.xml
C13_Witness ==
  /\ call.output_filename = PyText(<<"paper">>)
  /\ Len(invoked) = 2
  /\ invoked[1].tool = "unpaywall"
  /\ invoked[1].path = PyText(<<"papers", "/", "paper", ".pdf">>)
  /\ invoked[2].tool = "elsevier"
  /\ invoked[2].path = PyText(<<"papers", "/", "paper", ".xml">>)

\* C14: with sleep > 0 the batch has completed one pause per stored item,
\* except that the pause of the item just stored is still to come; so while
\* the strategies of an item run, every earlier item has had its pause, and
\* at the end every item, the last included, has had one. With sleep = 0
\* there is no pause.
C14_PauseAfterEachItem ==
  batch.active =>
    slept = IF batch.sleep > 0
            THEN (IF pc = "batch_sleep" THEN Len(processed) - 1 ELSE Len(processed))
            ELSE 0

\* a batch of two with a pause: the first item failed, the second succeeded,
\* and two pauses were made
C14_Witness ==
  /\ pc = "batch_done"
  /\ batch.sleep > 0
  /\ Len(processed) = 2
  /\ processed[1].outcome.kind = "raise"
  /\ processed[2].outcome.kind = "return"
  /\ slept = 2

\* C15: when the command has exited, its status is 0 with the confirmation
\* on the output stream and nothing on the error stream exactly when
\* download_article returned a path, and its status is 1 with the error of
\* download_article on the error stream and nothing on the output stream
\* exactly when download_article raised.
C15_ExitStatus ==
  (cli.active /\ pc = "exited") =>
    /\ outcome.kind \in {"return", "raise"}
    /\ outcome.kind = "return" <=>
         /\ cli.status = 0
         /\ cli.stderr = <<>>
         /\ cli.stdout = <<[text |-> "Successfully downloaded", doi |-> call.doi,
                            path |-> outcome.val]>>
    /\ outcome.kind = "raise" <=>
         /\ cli.status = 1
         /\ cli.stdout = <<>>
         /\ Len(cli.stderr) = 1
         /\ cli.stderr[1].text = "Error downloading"
         /\ cli.stderr[1].msg = outcome.exc.msg

\* the command has exited with 0 after a download through the second
\* strategy of the list
C15_Witness ==
  /\ cli.active
  /\ pc = "exited"
  /\ cli.status = 0
  /\ outcome.kind = "return"
  /\ Len(invoked) = 2

\* identifiers the summary of lines 222-225 lists as not downloaded
ReportedFailed == { stdout[k].doi : k \in {n \in 1..Len(stdout) : stdout[n].text = "  - "} }

\* C16, for batches of pairwise distinct identifiers: when the batch has
\* ended and a summary was made, the identifiers it lists as failed are
\* exactly those whose download_article call raised, and none whose call
\* returned a path is listed.
C16_SummaryMatchesOutcomes ==
  (/\ pc = "batch_done"
   /\ batch.tqdm
   /\ \A i, j \in 1..Len(batch.dois) : i # j => batch.dois[i] # batch.dois[j])
    => /\ ReportedFailed =
            { processed[i].doi : i \in {n \in 1..Len(processed) :
                                           processed[n].outcome.kind = "raise"} }
       /\ \A i \in 1..Len(processed) :
            processed[i].outcome.kind = "return" => processed[i].doi \notin ReportedFailed

\* the summary is right whenever the output directory does not begin with
\* the characters ERROR
SummaryRightOutsideErrorDirs ==
  batch.output_dir # <<"ERRORS">> => C16_SummaryMatchesOutcomes

\* C17 as stated: no step of a batch changes or removes an entry of results
C17_Original ==
  [][batch.active =>
       \A d \in DOMAIN results : d \in DOMAIN results' /\ results'[d] = results[d]]_vars

\* C17 amended: no step of a batch removes an entry; an entry appears only
\* in the step that stores the outcome of its identifier; and an entry
\* changes only in the step that stores the outcome of a later occurrence of
\* the same identifier, so that with pairwise distinct identifiers every
\* entry is written once and is final.
C17_EntriesFinalUnlessRepeated ==
  [][batch.active =>
       /\ \A d \in DOMAIN results :
            /\ d \in DOMAIN results'
            /\ results'[d] # results[d] =>
                 /\ pc \in {"returned", "raised"}
                 /\ d = call.doi
                 /\ \E i \in 1..(bi - 1) : batch.dois[i] = d
       /\ \A d \in DOMAIN results' \ DOMAIN results :
            /\ pc \in {"returned", "raised"}
            /\ d = call.doi
            /\ \A i \in 1..(bi - 1) : batch.dois[i] # d]_vars

\* an identifier listed twice failed first and succeeded then: its entry,
\* first an error text, now holds the path
C17_Witness ==
  /\ Len(processed) = 2
  /\ processed[1].doi = processed[2].doi
  /\ processed[1].outcome.kind = "raise"
  /\ processed[2].outcome.kind = "return"
  /\ results[processed[2].doi] = processed[2].outcome.val

\* C18: the requests of one classification are CrossRef alone or CrossRef
\* followed by DataCite; DataCite is asked exactly when CrossRef answered
\* 404 (never after a success, another error status or a transport error);
\* and a DataCite answer other than 200 makes the classifier return None.
C18_SecondaryOnlyAfter404 ==
  /\ Len(net) <= 2
  /\ Len(net) >= 1 => net[1].registry = "crossref"
  /\ Len(net) = 2 => net[2].registry = "datacite" /\ net[1].status = 404
  /\ pc = "datacite" <=> (Len(net) = 1 /\ net[1].status = 404)
  /\ (Len(net) = 1 /\ publisher # Pending) => net[1].status # 404
  /\ (Len(net) = 2 /\ net[2].status # 200) => publisher = Return(PyNone)

\* CrossRef answered 404, DataCite answered 500, the classifier returned None
C18_Witness ==
  /\ Len(net) = 2
  /\ net[1].status = 404
  /\ net[2].status = 500
  /\ publisher = Return(PyNone)
  /\ pc = "lookup"

\* number of records of the log l with event e about a strategy function
\* (a name that is not registered fails without any function being called)
CountEvents(l, e) ==
  Cardinality({k \in 1..Len(l) : l[k].event = e /\ l[k].tool \in TOOL_FUNCTIONS})

\* C19: the strategies called and not yet ended are at most one, and one
\* exactly while a strategy runs; an attempt other than the first of a call
\* directly follows the failure of the attempt before it; and while the
\* call for item bi of a batch is in progress, the outcomes of all earlier
\* items have been stored in results.
C19_StrictlySequential ==
  /\ LET ended == CountEvents(log, "failed") + CountEvents(log, "Success")
     IN  /\ Len(invoked) - ended \in {0, 1}
         /\ Len(invoked) - ended = 1 <=> pc = "running"
  /\ \A k \in 2..Len(log) :
       log[k].event = "Attempting" => log[k - 1].event = "failed"
  /\ (batch.active /\ call # NoCall) =>
       /\ Len(processed) = bi - 1
       /\ \A i \in 1..(bi - 1) : batch.dois[i] \in DOMAIN results

\* the second strategy of the second item of a batch is running
C19_Witness ==
  /\ batch.active
  /\ bi = 2
  /\ pc = "running"
  /\ Len(invoked) = 2
  /\ Len(processed) = 1

\* C20: for every item of a batch the strategies attempted are the first
\* elements of the list of that item, in list order, up to its first
\* success, and all of the list when the item ended with the final error,
\* whatever failed for the items before it; the same holds of the call in
\* progress.
C20_NoCircuitBreaking ==
  /\ \A n \in 1..Len(processed) :
       LET p == processed[n] IN
         /\ Len(p.attempted) <= Len(p.method_list)
         /\ p.attempted = SubSeq(p.method_list, 1, Len(p.attempted))
         /\ IsAllFailed(p.outcome) => p.attempted = p.method_list
         /\ (p.outcome.kind = "raise" /\ ~IsAllFailed(p.outcome)) => p.attempted = <<>>
  /\ (batch.active /\ pc \in {"loop", "dispatch", "running"}) =>
       /\ AttemptedTools(log) =
            SubSeq(method_list, 1, IF pc = "loop" THEN idx - 1 ELSE idx)
       /\ \A k \in 1..Len(log) : log[k].event # "Success"

\* unpaywall failed for the first item; the second item, an arXiv
\* identifier, still went through its whole list with unpaywall at its end
C20_Witness ==
  /\ Len(processed) = 2
  /\ IsAllFailed(processed[1].outcome)
  /\ processed[1].attempted[1] = "unpaywall"
  /\ IsAllFailed(processed[2].outcome)
  /\ processed[2].attempted = <<"paperscraper", "arxiv", "unpaywall">>

\* the metadata answer m carries a PDF URL: for Unpaywall a non-empty
\* best_oa_location.url_for_pdf, for CrossRef a non-empty URL in the first
\* element of message.link whose content-type starts with application/pdf
C21_HasPdfUrl(tool, b) ==
  /\ b.t = "dict"
  /\ IF tool = "unpaywall"
     THEN /\ "best_oa_location" \in DOMAIN b.f
          /\ b.f["best_oa_location"].t = "dict"
          /\ "url_for_pdf" \in DOMAIN b.f["best_oa_location"].f
          /\ b.f["best_oa_location"].f["url_for_pdf"] \notin {PyNone, PyStr("")}
     ELSE /\ "message" \in DOMAIN b.f
          /\ b.f["message"].t = "dict"
          /\ "link" \in DOMAIN b.f["message"].f
          /\ LET ls == b.f["message"].f["link"].v
                 pdf(i) == ls[i].f["content-type"].v
                             \in {"application/pdf", "application/pdf; version=1.7"}
             IN  \E i \in 1..Len(ls) :
                   /\ pdf(i)
                   /\ \A j \in 1..(i - 1) : ~pdf(j)
                   /\ "URL" \in DOMAIN ls[i].f
                   /\ ls[i].f["URL"] \notin {PyNone, PyStr("")}

\* the metadata request was answered with status 200 and a PDF URL
C21_LookupGood ==
  /\ strategy.meta # Pending
  /\ ~strategy.meta.err
  /\ strategy.meta.status = 200
  /\ C21_HasPdfUrl(strategy.tool, strategy.meta.body)

\* C21: in a call of download_via_unpaywall or download_via_crossref_tdm
\* the request for the file is issued only after a metadata request that
\* was answered with status 200 and a PDF URL; in every other case the call
\* ends with an exception, no request for the file was issued and the
\* destination was not written.
C21_DownloadOnlyAfterGoodLookup ==
  strategy.active =>
    /\ \A k \in 1..Len(toolnet) :
         toolnet[k].step = "file" =>
           /\ k = 2
           /\ toolnet[1].step = "api"
           /\ C21_LookupGood
    /\ written # <<>> => \E k \in 1..Len(toolnet) : toolnet[k].step = "file"
    /\ (pc \in {"tool_raised", "tool_returned"} /\ ~C21_LookupGood) =>
         /\ strategy.result.kind = "raise"
         /\ \A k \in 1..Len(toolnet) : toolnet[k].step # "file"
         /\ written = <<>>

\* CrossRef answered 200 with message.link holding no PDF link: the call
\* raised after its one request
C21_Witness ==
  /\ strategy.active
  /\ strategy.tool = "crossref_tdm"
  /\ pc = "tool_raised"
  /\ strategy.meta = HttpResponse(200, PyDict("message" :> PyDict("link" :>
        PyList(<<Link("text/html", PyStr("https://host/landing"))>>))))
  /\ strategy.result = Raise("Exception", "No PDF link found via CrossRef")
  /\ Len(toolnet) = 1

\* C22: a name of the list that is not a key of TOOL_FUNCTIONS never makes
\* download_article raise KeyError; once the loop has passed it, the log
\* holds its Attempting record followed by its failed record, no strategy
\* function was called for it, and the next element of the list, if any, is
\* attempted next; when it is the last element and the call ends with the
\* final error, that error carries the name as its last error.
C22_UnknownNameIsAFailedAttempt ==
  /\ outcome.kind = "raise" => outcome.exc.type # "KeyError"
  /\ \A k \in 1..Len(method_list) :
       (method_list[k] \notin TOOL_FUNCTIONS /\ k < idx) =>
         /\ Len(log) >= 2 * k
         /\ log[2 * k - 1].event = "Attempting"
         /\ log[2 * k - 1].tool = method_list[k]
         /\ log[2 * k].event = "failed"
         /\ log[2 * k].tool = method_list[k]
         /\ log[2 * k].detail = method_list[k]
         /\ \A j \in 1..Len(invoked) : invoked[j].pos # k
         /\ k < Len(method_list) =>
              \/ pc = "loop" /\ idx = k + 1
              \/ /\ Len(log) >= 2 * k + 1
                 /\ log[2 * k + 1].event = "Attempting"
                 /\ log[2 * k + 1].tool = method_list[k + 1]
  /\ (/\ pc = "raised"
      /\ Len(method_list) >= 1
      /\ idx > Len(method_list)
      /\ method_list[Len(method_list)] \notin TOOL_FUNCTIONS)
       => /\ IsAllFailed(outcome)
          /\ outcome.exc.msg.has_last
          /\ outcome.exc.msg.last = method_list[Len(method_list)]

\* the unregistered name came first and failed, unpaywall was tried after it
\* and returned the path
C22_Witness ==
  /\ method_list = <<"nosuchtool", "unpaywall">>
  /\ pc = "returned"
  /\ Len(log) = 4
  /\ log[2].event = "failed"
  /\ log[4].event = "Success"

\* the string a sequence of tokens spells
RECURSIVE Spelled(_)
Spelled(toks) == IF toks = <<>> THEN "" ELSE Head(toks) \o Spelled(Tail(toks))

\* C23: in a batch of pairwise distinct identifiers no two items that were
\* downloaded have the same output path (so no file of an item is written
\* again by a later item, and no two entries of results hold one path).
C23_DistinctPaths ==
  (/\ batch.active
   /\ \A i, j \in 1..Len(batch.dois) : i # j => batch.dois[i] # batch.dois[j])
    => \A i, j \in 1..Len(processed) :
         (/\ i < j
          /\ processed[i].outcome.kind = "return"
          /\ processed[j].outcome.kind = "return")
           => Spelled(processed[i].outcome.val.v) # Spelled(processed[j].outcome.val.v)

\* C24: a step of a download_article call adds lines to no log file other
\* than the one the call itself names as log_file: a call with no log_file
\* adds to no file, and a call with log_file B adds nothing to another file
\* that an earlier call attached.
C24_LogScopedToCall ==
  [][\A p \in DOMAIN files :
       (p \in DOMAIN files' /\ files'[p] # files[p])
         => /\ Truthy(call.log_file)
            /\ p = Abspath(call.log_file.v)]_vars

====
